---- MODULE Spec2Model ----
(***************************************************************************)
(* Model of docs/create-issues.py: main() validates the token, loads the   *)
(* issues file, and create_github_issues() looks the repository up, sorts  *)
(* the issues and submits them one by one to the remote issue tracker.     *)
(***************************************************************************)
EXTENDS Integers, Sequences, FiniteSets, TLC

\* ------------------------------------------------------------------ bounds
MaxItems == 2      \* longest issues list read from the file; ids are 1..MaxItems
FirstNumber == 100 \* first free issue number of the remote repository

\* ------------------------------------------------------- program constants
SuccessPause == 1
RateLimitPause == 60
RateLimitStatus == 403

\* statuses a GithubException raised by create_issue may carry
ErrorStatuses == {RateLimitStatus, 404}

\* ------------------------------------------------------------- input data
CrossCutting == [kind |-> "cross-cutting", n |-> 0]

NumberedPhase(k) == [kind |-> "number", n |-> k]

\* 'cross-cutting' and the numbered phases 0 and 1
Phases == {CrossCutting} \cup {NumberedPhase(k) : k \in {0, 1}}

Ids == 1..MaxItems

SeqsUpTo(S, n) == UNION {[1..k -> S] : k \in 0..n}

\* an issue names at most one dependency
Issue == [id : Ids, phase : Phases, dependencies : SeqsUpTo(Ids, 1)]

IssueLists == SeqsUpTo(Issue, MaxItems)

FileStatuses == {"ok", "missing", "malformed", "nokey"}

\* the input file: absent, not JSON, JSON without 'issues', or a list of issues
Files == [status : {"ok"}, data : IssueLists]
         \cup [status : FileStatuses \ {"ok"}, data : {<<>>}]

\* what main prints (or the traceback says) when the load fails
FileErrors == {"Error: file not found", "Error parsing JSON", "KeyError: 'issues'"}

LoadError(fs) ==
    IF fs = "missing" THEN "Error: file not found"
    ELSE IF fs = "malformed" THEN "Error parsing JSON"
    ELSE "KeyError: 'issues'"

\* --------------------------------------------------------------- variables
VARIABLES
    file,           \* the file args.file names, as it is on disk
    pc,             \* position of the run: validate, load, get_repo, loop, done
    exit_code,      \* exit code of the process (0 unless sys.exit(1) or an uncaught exception)
    dry_run,        \* args.dry_run
    token,          \* args.token is truthy
    issues,         \* list returned by load_issues
    issues_sorted,  \* local issues_sorted
    i,              \* number of loop iterations completed
    created_issues, \* dict issue id -> remote number
    clock,          \* time spent in time.sleep
    net,            \* remote calls made, each with its response
    renders,        \* body rendered in each loop iteration
    stdout,         \* lines printed
    remote,         \* issue numbers existing in the remote repository
    nextNumber      \* next free issue number of the remote repository

vars == <<file, pc, exit_code, dry_run, token, issues, issues_sorted, i, created_issues,
          clock, net, renders, stdout, remote, nextNumber>>

\* ---------------------------------------------------------------- helpers
\* key of sorted(): (0 if x['phase'] == 'cross-cutting' else x['phase'], x['id'])
SortKey(x) == <<IF x.phase.kind = "cross-cutting" THEN 0 ELSE x.phase.n, x.id>>

\* tuple comparison k1 <= k2
KeyLeq(k1, k2) == k1[1] < k2[1] \/ (k1[1] = k2[1] /\ k1[2] <= k2[2])

\* stable insertion: x goes after every element whose key is <= its key
RECURSIVE InsertSorted(_, _)
InsertSorted(s, x) ==
    IF s = <<>> THEN <<x>>
    ELSE IF KeyLeq(SortKey(s[Len(s)]), SortKey(x)) THEN Append(s, x)
    ELSE Append(InsertSorted(SubSeq(s, 1, Len(s) - 1), x), s[Len(s)])

RECURSIVE SortIssues(_)
SortIssues(s) ==
    IF s = <<>> THEN <<>>
    ELSE InsertSorted(SortIssues(SubSeq(s, 1, Len(s) - 1)), s[Len(s)])

\* title = f"Phase {phase}: {title}" if phase != 'cross-cutting' else title
Title(issue) == [id |-> issue.id, prefixed |-> issue.phase.kind # "cross-cutting",
                 phase |-> issue.phase]

\* format_issue_body: "- Issue {dep}" lines or "None", then the phase
FormatIssueBody(issue) ==
    [dependencies |-> issue.dependencies,
     none |-> issue.dependencies = <<>>,
     phase |-> issue.phase]

\* variant: looks every dependency up without the membership test
RECURSIVE DependsOnLines_NoCheck(_, _)
DependsOnLines_NoCheck(deps, created) ==
    IF deps = <<>> THEN <<>>
    ELSE LET d == Head(deps)
         IN <<[dep |-> d, n |-> IF d \in DOMAIN created THEN created[d] ELSE 0]>>
            \o DependsOnLines_NoCheck(Tail(deps), created)

\* the "- Depends on #{n}" lines: one for each dependency found in created
RECURSIVE DependsOnLines(_, _)
DependsOnLines(deps, created) ==
    IF deps = <<>> THEN <<>>
    ELSE LET rest == DependsOnLines(Tail(deps), created)
             d == Head(deps)
         IN IF d \in DOMAIN created
            THEN <<[dep |-> d, n |-> created[d]]>> \o rest
            ELSE rest

\* body after the "Related Issues" section has been appended
RenderBody(issue, created) ==
    [base |-> FormatIssueBody(issue),
     related_heading |-> issue.dependencies # <<>>,
     depends_on |-> DependsOnLines(issue.dependencies, created)]

\* variant: records the running count instead of the number returned
RecordCreated_Index(created, id, n) ==
    [x \in (DOMAIN created) \cup {id} |->
        IF x = id THEN Cardinality(DOMAIN created) + 1 ELSE created[x]]

\* variant: rebinds the dict to the new entry alone
RecordCreated_Only(created, id, n) == [x \in {id} |-> n]

\* created_issues[issue_id] = issue.number
RecordCreated(created, id, n) ==
    [x \in (DOMAIN created) \cup {id} |-> IF x = id THEN n ELSE created[x]]

\* variant: sleeps after any error
PauseAfterError_Always(status) == RateLimitPause

\* the except branch: sleep 60 only when e.status == 403
PauseAfterError(status) == IF status = RateLimitStatus THEN RateLimitPause ELSE 0

\* variant: the dry-run test inverted
TokenMissing_Inverted(dry, tok) == dry /\ ~tok

\* the token check of main
TokenMissing(dry, tok) == ~dry /\ ~tok

\* variant: iterates over the unsorted list
CurrentIssue_Unsorted == issues[i + 1]

\* the item of the current loop iteration
CurrentIssue == issues_sorted[i + 1]

\* variant: a failed item is tried again
NextIndex_Retry(k, outcome) == IF outcome = "error" THEN k ELSE k + 1

\* the loop moves on to the next item after any iteration
NextIndex(k, outcome) == k + 1

\* variant: exits with 1 when some item was not created
FinalExitCode_Strict(created, total) ==
    IF Cardinality(DOMAIN created) < total THEN 1 ELSE 0

\* the script falls off the end of main: exit code 0
FinalExitCode(created, total) == 0

Call(op, pos, id, title, body, result, status, number) ==
    [op |-> op, pos |-> pos, id |-> id, title |-> title, body |-> body,
     result |-> result, status |-> status, number |-> number, at |-> clock]

NoTitle == [id |-> 0, prefixed |-> FALSE, phase |-> CrossCutting]

NoBody == [base |-> [dependencies |-> <<>>, none |-> TRUE, phase |-> CrossCutting],
           related_heading |-> FALSE, depends_on |-> <<>>]

Line(msg, id, n) == [msg |-> msg, id |-> id, n |-> n]

\* -------------------------------------------------------------------- Init
Init ==
    /\ file \in Files
    /\ pc = "validate"
    /\ exit_code = 0
    /\ dry_run \in BOOLEAN
    /\ token \in BOOLEAN
    /\ issues = <<>>
    /\ issues_sorted = <<>>
    /\ i = 0
    /\ created_issues = <<>>
    /\ clock = 0
    /\ net = <<>>
    /\ renders = <<>>
    /\ stdout = <<>>
    /\ remote = {}
    /\ nextNumber = FirstNumber

\* ----------------------------------------------------------------- actions
\* main: token required unless dry run
ValidateTokenFails ==
    /\ pc = "validate"
    /\ TokenMissing(dry_run, token)
    /\ stdout' = Append(stdout, Line("Error: GitHub token required", 0, 0))
    /\ exit_code' = 1
    /\ pc' = "done"
    /\ UNCHANGED <<file, dry_run, token, issues, issues_sorted, i, created_issues, clock,
                   net, renders, remote, nextNumber>>

ValidateTokenOk ==
    /\ pc = "validate"
    /\ ~TokenMissing(dry_run, token)
    /\ pc' = "load"
    /\ UNCHANGED <<file, exit_code, dry_run, token, issues, issues_sorted, i, created_issues,
                   clock, net, renders, stdout, remote, nextNumber>>

\* main: load_issues succeeds
LoadIssuesOk ==
    /\ pc = "load"
    /\ file.status = "ok"
    /\ issues' = file.data
    /\ stdout' = Append(stdout, Line("Loaded issues", 0, Len(file.data)))
    /\ pc' = "get_repo"
    /\ UNCHANGED <<file, exit_code, dry_run, token, issues_sorted, i, created_issues, clock,
                   net, renders, remote, nextNumber>>

\* main: FileNotFoundError, JSONDecodeError, or an uncaught KeyError on data['issues']
LoadIssuesFails ==
    /\ pc = "load"
    /\ file.status # "ok"
    /\ stdout' = Append(stdout, Line(LoadError(file.status), 0, 0))
    /\ exit_code' = 1
    /\ pc' = "done"
    /\ UNCHANGED <<file, dry_run, token, issues, issues_sorted, i, created_issues, clock,
                   net, renders, remote, nextNumber>>

\* create_github_issues: get_repo succeeds, then the sort and the header prints
GetRepoOk ==
    /\ pc = "get_repo"
    /\ net' = Append(net, Call("get_repo", 0, 0, NoTitle, NoBody, "ok", 200, 0))
    /\ created_issues' = <<>>
    /\ issues_sorted' = SortIssues(issues)
    /\ stdout' = stdout \o <<Line("Connected to repository", 0, 0),
                             Line("Will create", 0, Len(issues))>>
    /\ pc' = "loop"
    /\ UNCHANGED <<file, exit_code, dry_run, token, issues, i, clock, renders, remote, nextNumber>>

\* create_github_issues: get_repo raises GithubException
GetRepoFails ==
    /\ pc = "get_repo"
    /\ net' = Append(net, Call("get_repo", 0, 0, NoTitle, NoBody, "error", 404, 0))
    /\ stdout' = Append(stdout, Line("Error accessing repository", 0, 0))
    /\ exit_code' = 1
    /\ pc' = "done"
    /\ UNCHANGED <<file, dry_run, token, issues, issues_sorted, i, created_issues, clock,
                   renders, remote, nextNumber>>

\* loop body in dry-run mode
DryRunItem ==
    /\ pc = "loop"
    /\ i < Len(issues_sorted)
    /\ dry_run
    /\ LET issue == CurrentIssue
           body == RenderBody(issue, created_issues)
       IN /\ renders' = Append(renders, body)
          /\ stdout' = Append(stdout, Line("Would create", issue.id, 0))
          /\ i' = NextIndex(i, "skipped")
    /\ UNCHANGED <<file, pc, exit_code, dry_run, token, issues, issues_sorted, created_issues,
                   clock, net, remote, nextNumber>>

\* loop body, create_issue returns an issue
CreateIssueOk ==
    /\ pc = "loop"
    /\ i < Len(issues_sorted)
    /\ ~dry_run
    /\ LET issue == CurrentIssue
           body == RenderBody(issue, created_issues)
           number == nextNumber
       IN   /\ renders' = Append(renders, body)
            /\ net' = Append(net, Call("create_issue", i + 1, issue.id, Title(issue),
                                       body, "ok", 201, number))
            /\ remote' = remote \cup {number}
            /\ nextNumber' = number + 1
            /\ created_issues' = RecordCreated(created_issues, issue.id, number)
            /\ stdout' = stdout \o <<Line("Creating", issue.id, 0),
                                     Line("Created issue", issue.id, number)>>
            /\ clock' = clock + SuccessPause
            /\ i' = NextIndex(i, "created")
    /\ UNCHANGED <<file, pc, exit_code, dry_run, token, issues, issues_sorted>>

\* loop body, create_issue raises GithubException
CreateIssueRaises ==
    /\ pc = "loop"
    /\ i < Len(issues_sorted)
    /\ ~dry_run
    /\ \E status \in ErrorStatuses :
         LET issue == CurrentIssue
             body == RenderBody(issue, created_issues)
         IN /\ renders' = Append(renders, body)
            /\ net' = Append(net, Call("create_issue", i + 1, issue.id, Title(issue),
                                       body, "error", status, 0))
            /\ stdout' = stdout \o <<Line("Creating", issue.id, 0),
                                     Line("Error creating issue", issue.id, status)>>
                                \o (IF status = RateLimitStatus
                                    THEN <<Line("Rate limit may be exceeded", issue.id, 0)>>
                                    ELSE <<>>)
            /\ clock' = clock + PauseAfterError(status)
            /\ i' = NextIndex(i, "error")
    /\ UNCHANGED <<file, pc, exit_code, dry_run, token, issues, issues_sorted, created_issues,
                   remote, nextNumber>>

\* after the loop: the closing prints, then main returns
Finish ==
    /\ pc = "loop"
    /\ i >= Len(issues_sorted)
    /\ stdout' = stdout \o (IF dry_run
                            THEN <<Line("Dry run complete", 0, 0)>>
                            ELSE <<Line("Issue creation complete", 0, 0),
                                   Line("Created issues", 0,
                                        Cardinality(DOMAIN created_issues))>>)
    /\ exit_code' = FinalExitCode(created_issues, Len(issues_sorted))
    /\ pc' = "done"
    /\ UNCHANGED <<file, dry_run, token, issues, issues_sorted, i, created_issues, clock,
                   net, renders, remote, nextNumber>>

Next ==
    \/ ValidateTokenFails
    \/ ValidateTokenOk
    \/ LoadIssuesOk
    \/ LoadIssuesFails
    \/ GetRepoOk
    \/ GetRepoFails
    \/ DryRunItem
    \/ CreateIssueOk
    \/ CreateIssueRaises
    \/ Finish

Spec == Init /\ [][Next]_vars

\* Termination does not depend on what the issues depend on: the fair
\* specification reads files whose issues name no dependency.
FairInit ==
    /\ Init
    /\ \A k \in 1..Len(file.data) : file.data[k].dependencies = <<>>

\* the script is sequential and every step it can take it does take
FairSpec == FairInit /\ [][Next]_vars /\ WF_vars(Next)

\* ------------------------------------------------- vocabulary of the claims
IsCreate(c) == c.op = "create_issue"

\* the create_issue calls made so far, in the order they were made
Creates == SelectSeq(net, IsCreate)

IsWouldCreate(l) == l.msg = "Would create"

WouldCreates == SelectSeq(stdout, IsWouldCreate)

Range(s) == {s[k] : k \in 1..Len(s)}

UniqueIds(s) == \A a, b \in 1..Len(s) : a # b => s[a].id # s[b].id

LookupSucceeded == net # <<>> /\ net[1].op = "get_repo" /\ net[1].result = "ok"

\* ---------------------------------------------------------------------- C1
\* C1: in dry-run mode the run makes no remote call at all (also no get_repo
\* lookup), whatever the input and the token, and when it has ended it has
\* printed one "Would create" entry for every item of the input.
C1_DryRunNoRemoteCalls ==
    dry_run =>
        /\ net = <<>>
        /\ (pc = "done" => Len(WouldCreates) = Len(issues))

\* ---------------------------------------------------------------------- C2
CrossCuttingFirst(s) ==
    \A a, b \in 1..Len(s) :
        (s[a].phase.kind = "cross-cutting" /\ s[b].phase.kind = "number") => a < b

AscendingWithinPhase(s) ==
    \A a, b \in 1..Len(s) :
        (a < b /\ s[a].phase = s[b].phase) => s[a].id <= s[b].id

\* C2: in the sorted order every cross-cutting item precedes every item with a
\* numbered phase, and within one phase the identifiers ascend.
C2_SortOrder ==
    pc \in {"loop", "done"} =>
        CrossCuttingFirst(issues_sorted) /\ AscendingWithinPhase(issues_sorted)

\* ---------------------------------------------------------------------- C3
\* the call was made for this item: title and rendered fields are the item's
CallIsFor(c, issue) ==
    /\ c.id = issue.id
    /\ c.title = Title(issue)
    /\ c.body.base = FormatIssueBody(issue)

\* C3: in a non-dry-run run the k-th create_issue call is for the k-th item of
\* the sorted order, whatever the earlier calls returned, and a run that gets
\* through the loop has submitted the whole sorted order.
C3_SubmissionOrder ==
    ~dry_run =>
        /\ Len(Creates) <= Len(issues_sorted)
        /\ \A k \in 1..Len(Creates) : CallIsFor(Creates[k], issues_sorted[k])
        /\ (pc = "done" /\ LookupSucceeded => Len(Creates) = Len(issues_sorted))

\* a complete run over two items that the sort reordered, the first call
\* rate-limited and the second one still made
C3_Witness ==
    /\ ~dry_run
    /\ pc = "done"
    /\ Len(Creates) = 2
    /\ issues # issues_sorted
    /\ Creates[1].status = RateLimitStatus
    /\ Creates[2].result = "ok"

\* ---------------------------------------------------------------------- C4
\* C4: with unique identifiers, when a submitted item has a dependency that an
\* earlier call of the run created, the submitted body has a "Depends on #n"
\* line with the number that earlier call returned, and every line rendered
\* for that dependency carries that number.
C4_DependsOnNumber ==
    UniqueIds(issues) =>
        \A k \in 1..Len(Creates) : \A j \in 1..(k - 1) :
            (/\ Creates[j].result = "ok"
             /\ Creates[j].id \in Range(issues_sorted[k].dependencies))
            => /\ \E l \in Range(Creates[k].body.depends_on) :
                     l.n = Creates[j].number
               /\ \A l \in Range(Creates[k].body.depends_on) :
                     l.dep = Creates[j].id => l.n = Creates[j].number

\* the second item depends on the first, which was created with a number the
\* remote chose
C4_Witness ==
    /\ UniqueIds(issues)
    /\ Len(Creates) = 2
    /\ Creates[1].result = "ok"
    /\ Creates[1].number = FirstNumber
    /\ Creates[1].id \in Range(issues_sorted[2].dependencies)
    /\ Creates[2].body.depends_on # <<>>

\* ---------------------------------------------------------------------- C5
\* no earlier call of the run created an item with identifier d
Unrecorded(d, p) ==
    ~ \E c \in Range(Creates) : c.pos < p /\ c.result = "ok" /\ c.id = d

\* C5: when an item is processed and a dependency has no recorded number at
\* that moment, the rendered body has no "Depends on" line for it, and the
\* item reaches its submission step (a call, or the dry-run print).
C5_UnresolvedOmitted ==
    /\ Len(renders) = i
    /\ \A p \in 1..Len(renders) :
         \A d \in Range(issues_sorted[p].dependencies) :
            Unrecorded(d, p) =>
                \A l \in Range(renders[p].depends_on) : l.dep # d
    /\ (dry_run => Len(WouldCreates) = i)
    /\ (~dry_run =>
           /\ Len(Creates) = i
           /\ \A p \in 1..i : Creates[p].body = renders[p])

\* the dependency was submitted first but rate-limited, and the dependent
\* item was still submitted, without a line for it
C5_Witness ==
    /\ Len(Creates) = 2
    /\ Creates[1].status = RateLimitStatus
    /\ Creates[1].id \in Range(issues_sorted[2].dependencies)
    /\ Creates[2].body.related_heading
    /\ Creates[2].body.depends_on = <<>>
    /\ Creates[2].result = "ok"

\* ---------------------------------------------------------------------- C6
CallsFor(p) == {k \in 1..Len(Creates) : Creates[k].pos = p}

\* state of the item at position p of the sorted order
Status(p) ==
    IF p > i THEN "PENDING"
    ELSE IF dry_run THEN "SKIPPED"
    ELSE IF \E k \in CallsFor(p) : Creates[k].result = "ok" THEN "CREATED"
    ELSE IF \E k \in CallsFor(p) : Creates[k].status = RateLimitStatus THEN "RATE_LIMITED"
    ELSE "FAILED"

AtMostOneCallPerItem ==
    /\ \A p \in 1..Len(issues_sorted) : Cardinality(CallsFor(p)) <= 1
    /\ \A k \in 1..Len(Creates) : Creates[k].pos \in 1..i

TerminalStateKept ==
    \A p \in 1..Len(issues_sorted) :
        Status(p) # "PENDING" => Status(p)' = Status(p)

\* C6: an item leaves PENDING for one terminal state and keeps it; no item is
\* the subject of two create_issue calls, so a rate-limited or failed item is
\* never submitted again.
C6_NoRetry == [](AtMostOneCallPerItem) /\ [][TerminalStateKept]_vars

\* the first item was rate-limited, the second failed otherwise, the run is over
C6_Witness ==
    /\ pc = "done"
    /\ Len(issues_sorted) = 2
    /\ Status(1) = "RATE_LIMITED"
    /\ Status(2) = "FAILED"
    /\ Len(Creates) = 2

\* ---------------------------------------------------------------------- C7
CreatedStayCreated ==
    \A c \in Range(Creates) : c.result = "ok" => c.number \in remote

RunCompletes ==
    (pc = "done" /\ LookupSucceeded) =>
        /\ exit_code = 0
        /\ i = Len(issues_sorted)
        /\ \A p \in 1..Len(issues_sorted) : Status(p) # "PENDING"

\* C7: after a successful repository lookup no per-item failure stops the run:
\* the loop gets through every item, the run ends with exit code 0, and what
\* was created stays in the remote repository.
C7_FailuresDoNotStop ==
    /\ [](RunCompletes /\ CreatedStayCreated)
    /\ [][remote \subseteq remote']_vars
    /\ (LookupSucceeded ~> (pc = "done" /\ exit_code = 0 /\ i = Len(issues_sorted)))

\* a created item, then a failed one, and the run ended normally
C7_Witness ==
    /\ pc = "done"
    /\ exit_code = 0
    /\ Len(Creates) = 2
    /\ Creates[1].result = "ok"
    /\ Creates[2].result = "error"
    /\ Creates[1].number \in remote

\* ---------------------------------------------------------------------- C8
LastLine == stdout[Len(stdout)]

FatalConfigOrInput ==
    /\ pc = "done"
    /\ \/ TokenMissing(dry_run, token)
       \/ LastLine.msg \in {"Error: file not found", "Error parsing JSON"}

Loaded == \E l \in Range(stdout) : l.msg = "Loaded issues"

\* C8: a run that ends on a missing token or on a missing or unparsable file
\* exits with code 1 and has made no remote call; any remote call comes after
\* the token check has passed and the file has been loaded.
C8_FatalBeforeRemote ==
    /\ FatalConfigOrInput => (exit_code = 1 /\ net = <<>>)
    /\ net # <<>> => ((dry_run \/ token) /\ Loaded)

\* a non-dry run without a token that has ended
C8_Witness ==
    /\ pc = "done"
    /\ ~dry_run
    /\ ~token
    /\ exit_code = 1
    /\ LastLine.msg = "Error: GitHub token required"

\* ---------------------------------------------------------------------- C9
PauseAfter(c) ==
    IF c.result = "ok" THEN 1
    ELSE IF c.status = 403 THEN 60
    ELSE 0

\* C9: in a non-dry run a successful creation is followed by a pause of 1 and a
\* 403 error by a pause of 60 before the next call; any other failure and a
\* dry-run item are followed by no pause; each processed item of a non-dry run
\* made one create_issue call.
C9_Pauses ==
    /\ \A k \in 1..Len(Creates) :
         LET next == IF k < Len(Creates) THEN Creates[k + 1].at ELSE clock
         IN next - Creates[k].at = PauseAfter(Creates[k])
    /\ (dry_run => clock = 0 /\ Creates = <<>>)
    /\ (~dry_run => Len(Creates) = i)

\* a rate-limited call, then a plain failure, then the end of the run
C9_Witness ==
    /\ pc = "done"
    /\ Len(Creates) = 2
    /\ Creates[1].status = 403
    /\ Creates[2].status = 404
    /\ Creates[2].at = 60
    /\ clock = 60

\* --------------------------------------------------------------------- C10
OkCalls == {k \in 1..Len(Creates) : Creates[k].result = "ok"}

MappingMatchesCalls ==
    /\ DOMAIN created_issues = {Creates[k].id : k \in OkCalls}
    /\ \A k \in OkCalls : created_issues[Creates[k].id] = Creates[k].number

CreatedCountPrinted ==
    \A l \in Range(stdout) :
        l.msg = "Created issues" => l.n = Cardinality(OkCalls)

EntriesKept ==
    \A x \in DOMAIN created_issues :
        x \in DOMAIN created_issues' /\ created_issues'[x] = created_issues[x]

\* C10: with unique identifiers the created-issues mapping holds exactly the
\* identifiers of the successful calls, each with the number returned; entries
\* are only added; the mapping is empty during a dry run; the final count is
\* the number of successful calls.
C10_CreatedMapping ==
    /\ [](UniqueIds(issues) => (MappingMatchesCalls /\ CreatedCountPrinted))
    /\ [](dry_run => DOMAIN created_issues = {})
    /\ [][UniqueIds(issues) => EntriesKept]_vars

\* two creations and the final count printed
C10_Witness ==
    /\ UniqueIds(issues)
    /\ pc = "done"
    /\ Cardinality(OkCalls) = 2
    /\ Cardinality(DOMAIN created_issues) = 2
    /\ LastLine.msg = "Created issues"
    /\ LastLine.n = 2

====
